---- MODULE Spec2Model ----
(***************************************************************************)
(* Credential and session lifecycle engine of the SSO service              *)
(* (src/internal/services/auth/auth.go).  The engine is stateless: all     *)
(* durable state lives in the Account, App and Session stores, which it    *)
(* reaches through the interfaces of auth.go:35-61.  The stores, the token *)
(* signer (sso/internal/lib/jwt) and the domain models are not part of the *)
(* sources at hand; they are modelled from their contracts in spec.md 3    *)
(* and 6.  Time is counted in whole clock units (time.Now()).  An          *)
(* operation is one action per call it makes to a store or to the clock;  *)
(* what it holds between two of them is its frame, and other requests run *)
(* in between.  What a step returns is an operator (...Result, ...Error). *)
(***************************************************************************)
EXTENDS Integers, Sequences, FiniteSets, TLC

\* ------------------------------------------------------------------ bounds
\* Last clock value the model reaches.
MaxTime == 2
\* Number of token pairs ever minted (jwt.NewToken with generateRefreshToken).
MaxIssued == 2

\* ------------------------------------------------------------ input domains
Emails == {"a@x.com", "b@x.com"}
Passwords == {"pw123", "pw456", "tooLong"}
Roles == {"USER", "ADMIN"}
Statuses == {"ACTIVE", "SUSPENDED"}
\* Apps registered out of core (read-only to the engine), and the ids callers may name.
Apps == {1}
AppIds == {1, 2}
\* Account ids callers may name: the ids the store can assign, and one it never assigns.
AccountIds == 1 .. (Cardinality(Emails) + 1)
\* Engine configuration handed to New: <<tokenTTL, refreshTokenTTL>>.
TTLConfigs == {<<1, 1>>, <<1, 2>>, <<2, 1>>}
\* Registration requests: <<email, password, role, appId>>.
RegInputs ==
    { <<"a@x.com", "pw123", "USER", 1>>,
      <<"a@x.com", "tooLong", "USER", 1>>,
      <<"b@x.com", "pw456", "ADMIN", 2>> }
\* Password change requests: <<accountID, oldPassword, newPassword>>.
CPInputs ==
    { <<1, "pw123", "pw456">>, <<1, "pw123", "pw123">>, <<1, "pw456", "pw123">>,
      <<1, "pw123", "tooLong">>, <<3, "pw123", "pw456">> }
\* Login requests: <<email, password, appID>>.
LoginInputs ==
    { <<"a@x.com", "pw123", 1>>, <<"a@x.com", "pw456", 1>>, <<"a@x.com", "pw123", 2>>,
      <<"b@x.com", "pw456", 1>>, <<"b@x.com", "pw123", 1>> }
\* Status change requests: <<accountID, status>>.
StatusInputs == { <<1, "SUSPENDED">>, <<1, "ACTIVE">>, <<3, "SUSPENDED">> }
\* Concurrent ChangePassword requests in flight.
CPCallers == {1, 2}

\* -------------------------------------------------------------- error kinds
ErrNil == "nil"
ErrInvalidCredentials == "ErrInvalidCredentials"
ErrAccountNotFound == "ErrAccountNotFound"
ErrAppNotFound == "ErrAppNotFound"
ErrSessionNotFound == "ErrSessionNotFound"
\* A store error other than a lookup miss.
ErrStore == "ErrStore"
ErrHash == "ErrPasswordTooLong"
ErrSign == "ErrSign"
ErrRand == "ErrRand"
\* fmt.Errorf("%s: %w", op, err) with err == nil: a non-nil error wrapping nothing.
ErrWrappedNil == "WrappedNil"

\* The empty string results of the token-returning operations.
NoToken == [uid |-> 0, appId |-> 0, exp |-> 0]
NoRefresh == 0

VARIABLES
    now,        \* time.Now()
    ttl,        \* <<a.tokenTTL, a.refreshTokenTTL>>
    accounts,   \* Account Store: sequence of rows, id = position
    sessions,   \* Session Store: sequence of rows in insertion order
    issued,     \* number of refresh tokens generated so far
    handedOut,  \* token pairs <<token, refreshToken>> returned to callers so far
    logout,     \* the Logout call in flight, or the frame of the last one
    cp,         \* the ChangePassword calls in flight
    login,      \* the Login call in flight
    refresh,    \* the RefreshAccountSession call in flight
    validate    \* the ValidateAccountSession call in flight

vars ==
    <<now, ttl, accounts, sessions, issued, handedOut, logout, cp, login, refresh, validate>>

tokenTTL == ttl[1]
refreshTokenTTL == ttl[2]

\* ------------------------------------------------------ credential hasher
TooLong(pw) == pw = "tooLong"

\* bcrypt.GenerateFromPassword: one-way; fails on input over 72 bytes.
GenerateFromPassword(pw) == [alg |-> "bcrypt", of |-> pw]

\* bcrypt.CompareHashAndPassword(hash, pw) == nil
CompareHashAndPassword(hash, pw) == hash.alg = "bcrypt" /\ hash.of = pw

\* ------------------------------------------------------------ token signer
\* jwt.NewToken(user, app, ttl): the signed string is a function of its payload,
\* the account identity, the app identity and the expiry now + ttl; signing the
\* same payload again gives the same string.
NewToken(user, appId, duration) ==
    [uid |-> user.id, appId |-> appId, exp |-> now + duration]

\* generateRefreshToken: 32 random bytes, URL-safe base64; never drawn twice
\* (serial: the number of the draw).
generateRefreshToken(serial) == serial

\* ------------------------------------------------------------ account store
AccountByEmail(email) ==
    LET hit == {i \in 1 .. Len(accounts) : accounts[i].email = email}
    IN  IF hit = {} THEN 0 ELSE CHOOSE i \in hit : TRUE

AccountExists(id) == id \in 1 .. Len(accounts)

SaveAccount(email, passHash, role, status, appId) ==
    Append(accounts,
           [id |-> Len(accounts) + 1, email |-> email, passHash |-> passHash,
            role |-> role, status |-> status, appId |-> appId])

UpdatePassword(id, newPassHash) ==
    [accounts EXCEPT ![id].passHash = newPassHash]

UpdateStatus(id, status) ==
    IF AccountExists(id) THEN [accounts EXCEPT ![id].status = status] ELSE accounts

\* ------------------------------------------------------------ session store
RECURSIVE SelectRows(_, _, _)
SelectRows(rows, i, keep) ==
    IF i > Len(rows) THEN <<>>
    ELSE IF i \in keep THEN <<rows[i]>> \o SelectRows(rows, i + 1, keep)
    ELSE SelectRows(rows, i + 1, keep)

\* SaveSession(accountId, userAgent, ipAddress, token, refreshToken, expiresAt)
SaveSession(accountId, token, refreshToken, refreshExpiresAt) ==
    Append(sessions,
           [uid |-> accountId, token |-> token, refreshToken |-> refreshToken,
            expiresAt |-> token.exp, refreshExpiresAt |-> refreshExpiresAt])

\* RevokeSession(token): removes what is stored under the token; no error when
\* there is nothing.
RevokeSession(token) ==
    SelectRows(sessions, 1, {i \in 1 .. Len(sessions) : sessions[i].token # token})

\* Sessions(accountId): the account's sessions in store order.
Sessions(accountId) ==
    SelectRows(sessions, 1, {i \in 1 .. Len(sessions) : sessions[i].uid = accountId})

HasSession(token) == \E i \in 1 .. Len(sessions) : sessions[i].token = token

\* Session(token): a session stored under the token.  Sessions that carry the
\* same token have the same owner and the same expiresAt.
Session(token) ==
    sessions[CHOOSE i \in 1 .. Len(sessions) : sessions[i].token = token]

HasRefresh(rt) == \E i \in 1 .. Len(sessions) : sessions[i].refreshToken = rt

\* SessionByRefreshToken(refreshToken)
SessionByRefreshToken(rt) ==
    sessions[CHOOSE i \in 1 .. Len(sessions) : sessions[i].refreshToken = rt]

\* ------------------------------------------------------------------ frames
IdleCP == [pc |-> "idle", acct |-> 0, old |-> "", new |-> ""]
IdleLogout == [pc |-> "idle", acct |-> 0, list |-> <<>>, k |-> 0, revoked |-> {}]
\* The locals of a Login call: user.ID, appID, token, refreshToken, expiresAt.
IdleLogin == [pc |-> "idle", uid |-> 0, appId |-> 0, token |-> NoToken,
              refreshToken |-> NoRefresh, expiresAt |-> 0]
\* The locals of a RefreshAccountSession call: accountID, account.AppId,
\* refreshToken, session.AccountId, session.RefreshExpiresAt, newToken,
\* newRefreshToken, expiresAt.
IdleRefresh == [pc |-> "idle", uid |-> 0, appId |-> 0, presented |-> NoRefresh,
                owner |-> 0, deadline |-> 0, token |-> NoToken,
                refreshToken |-> NoRefresh, expiresAt |-> 0]
\* The local of a ValidateAccountSession call: session, as the store returned it.
NoSession == [uid |-> 0, token |-> NoToken, refreshToken |-> NoRefresh,
              expiresAt |-> 0, refreshExpiresAt |-> 0]
IdleValidate == [pc |-> "idle", session |-> NoSession]

\* Tokens a caller can present: those handed out, and a forged one.
ForgedTokens == { [uid |-> 1, appId |-> 1, exp |-> 2 * MaxTime + 1] }
TokenInputs == {p[1] : p \in handedOut} \cup ForgedTokens
RefreshInputs == {p[2] : p \in handedOut} \cup {MaxIssued + 1}
\* Faults of signer and random source (a failing store is a BOOLEAN input of
\* the step that calls it).
MintFaults == {"none", "sign", "rand"}

Init ==
    /\ now = 0
    /\ ttl \in TTLConfigs
    /\ accounts = <<>>
    /\ sessions = <<>>
    /\ issued = 0
    /\ handedOut = {}
    /\ logout = IdleLogout
    /\ cp = [c \in CPCallers |-> IdleCP]
    /\ login = IdleLogin
    /\ refresh = IdleRefresh
    /\ validate = IdleValidate

\* The clock advances.
Tick ==
    /\ now < MaxTime
    /\ now' = now + 1
    /\ UNCHANGED <<ttl, accounts, sessions, issued, handedOut, logout, cp, login, refresh, validate>>

\* ------------------------------------------------------- RegisterNewAccount
\* What RegisterNewAccount(email, pass, role, appId) returns; storeFail: the
\* store's SaveAccount is rejected for a reason other than a duplicate email.
RegisterNewAccountResult(email, pass, role, appId, storeFail) ==
    IF TooLong(pass) THEN [id |-> 0, err |-> ErrHash]
    ELSE IF storeFail \/ AccountByEmail(email) # 0 THEN [id |-> 0, err |-> ErrStore]
    ELSE [id |-> Len(accounts) + 1, err |-> ErrNil]

\* Variant of RegisterNewAccountStores: registration also issues a session.
RegisterAlsoIssuesSession(email, pass, role, appId, storeFail) ==
    IF RegisterNewAccountResult(email, pass, role, appId, storeFail).err # ErrNil
    THEN [accounts |-> accounts, sessions |-> sessions]
    ELSE [accounts |-> SaveAccount(email, GenerateFromPassword(pass), role, "ACTIVE", appId),
          sessions |-> SaveSession(Len(accounts) + 1,
                                   [uid |-> Len(accounts) + 1, appId |-> appId,
                                    exp |-> now + tokenTTL],
                                   generateRefreshToken(issued + 1),
                                   now + refreshTokenTTL)]

\* The stores after RegisterNewAccount (lines 96-110).
RegisterNewAccountStores(email, pass, role, appId, storeFail) ==
    IF RegisterNewAccountResult(email, pass, role, appId, storeFail).err # ErrNil
    THEN [accounts |-> accounts, sessions |-> sessions]
    ELSE [accounts |-> SaveAccount(email, GenerateFromPassword(pass), role, "ACTIVE", appId),
          sessions |-> sessions]

RegisterNewAccount(email, pass, role, appId, storeFail) ==
    /\ accounts' = RegisterNewAccountStores(email, pass, role, appId, storeFail).accounts
    /\ sessions' = RegisterNewAccountStores(email, pass, role, appId, storeFail).sessions
    /\ UNCHANGED <<now, ttl, issued, handedOut, logout, cp, login, refresh, validate>>

\* -------------------------------------------------------------------- Login
\* Login makes its store calls and reads the clock one after the other, and
\* other requests run in between: AccountByEmail (134), App (150), the clock
\* inside jwt.NewToken (157), time.Now() (168), SaveSession (170).

\* Variant of LoginLookupError: the store's miss is passed on.
LoginLookupLeaks(email, storeFail) ==
    IF storeFail THEN ErrStore
    ELSE IF AccountByEmail(email) = 0 THEN ErrAccountNotFound
    ELSE ErrNil

\* Lines 134-143: the account lookup.  storeFail: AccountByEmail fails with an
\* error that is not storage.ErrAccountNotFound; it is passed on as it is.
LoginLookupError(email, storeFail) ==
    IF storeFail THEN ErrStore
    ELSE IF AccountByEmail(email) = 0 THEN ErrInvalidCredentials
    ELSE ErrNil

\* Variant of LoginCredentialError: only ACTIVE accounts pass.
LoginCredentialErrorActiveOnly(email, password, storeFail) ==
    IF LoginLookupError(email, storeFail) # ErrNil THEN LoginLookupError(email, storeFail)
    ELSE IF ~CompareHashAndPassword(accounts[AccountByEmail(email)].passHash, password)
    THEN ErrInvalidCredentials
    ELSE IF accounts[AccountByEmail(email)].status # "ACTIVE"
    THEN ErrInvalidCredentials
    ELSE ErrNil

\* Lines 134-148: the account lookup and the password check.
LoginCredentialError(email, password, storeFail) ==
    IF LoginLookupError(email, storeFail) # ErrNil THEN LoginLookupError(email, storeFail)
    ELSE IF ~CompareHashAndPassword(accounts[AccountByEmail(email)].passHash, password)
    THEN ErrInvalidCredentials
    ELSE ErrNil

\* Lines 150-153: the app lookup.  storeFail: App fails with an error that is
\* not a miss.
LoginAppError(appID, storeFail) ==
    IF storeFail THEN ErrStore
    ELSE IF appID \notin Apps THEN ErrAppNotFound
    ELSE ErrNil

\* Lines 134-148: fetch the account and verify the password.  A call stopped
\* here returns ("", "", LoginCredentialError).
LoginAccount(email, password, appID, storeFail) ==
    /\ login.pc = "idle"
    /\ IF LoginCredentialError(email, password, storeFail) # ErrNil
       THEN UNCHANGED login
       ELSE login' = [IdleLogin EXCEPT !.pc = "account",
                                       !.uid = AccountByEmail(email),
                                       !.appId = appID]
    /\ UNCHANGED <<now, ttl, accounts, sessions, issued, handedOut, logout, cp, refresh, validate>>

\* Lines 150-153: fetch the app.  A call stopped here returns
\* ("", "", LoginAppError).
LoginApp(storeFail) ==
    /\ login.pc = "account"
    /\ IF LoginAppError(login.appId, storeFail) # ErrNil
       THEN login' = IdleLogin
       ELSE login' = [login EXCEPT !.pc = "verified"]
    /\ UNCHANGED <<now, ttl, accounts, sessions, issued, handedOut, logout, cp, refresh, validate>>

\* Lines 157-166: the error of the signer or of the random source, or nil.
MintError(fault) ==
    IF fault = "sign" THEN ErrSign
    ELSE IF fault = "rand" THEN ErrRand
    ELSE ErrNil

\* Variant of LoginMint: the session is written once the token is signed, before
\* the refresh token is generated.
LoginMintSavesEarly(fault) ==
    /\ login.pc = "verified"
    /\ IF MintError(fault) # ErrNil
       THEN /\ login' = IdleLogin
            /\ UNCHANGED issued
            /\ sessions' = IF fault = "rand"
                           THEN SaveSession(login.uid,
                                            NewToken(accounts[login.uid], login.appId,
                                                     tokenTTL),
                                            NoRefresh, now + refreshTokenTTL)
                           ELSE sessions
       ELSE /\ issued < MaxIssued
            /\ issued' = issued + 1
            /\ login' = [login EXCEPT
                            !.pc = "minted",
                            !.token = NewToken(accounts[login.uid], login.appId,
                                               tokenTTL),
                            !.refreshToken = generateRefreshToken(issued + 1)]
            /\ UNCHANGED sessions
    /\ UNCHANGED <<now, ttl, accounts, handedOut, logout, cp, refresh, validate>>

\* Lines 157-166: jwt.NewToken, which reads the clock, and generateRefreshToken.
\* A call stopped here returns ("", "", MintError).
LoginMint(fault) ==
    /\ login.pc = "verified"
    /\ IF MintError(fault) # ErrNil
       THEN /\ login' = IdleLogin
            /\ UNCHANGED issued
       ELSE /\ issued < MaxIssued
            /\ issued' = issued + 1
            /\ login' = [login EXCEPT
                            !.pc = "minted",
                            !.token = NewToken(accounts[login.uid], login.appId,
                                               tokenTTL),
                            !.refreshToken = generateRefreshToken(issued + 1)]
    /\ UNCHANGED <<now, ttl, accounts, sessions, handedOut, logout, cp, refresh, validate>>

\* Variant of LoginRefreshExpiry: the access-token TTL is used.
LoginRefreshExpiryTokenTTL == now + tokenTTL

\* Line 168: expiresAt := time.Now().Add(a.refreshTokenTTL)
LoginRefreshExpiry == now + refreshTokenTTL

\* Line 168: the second reading of the clock.
LoginStamp ==
    /\ login.pc = "minted"
    /\ login' = [login EXCEPT !.pc = "stamped", !.expiresAt = LoginRefreshExpiry]
    /\ UNCHANGED <<now, ttl, accounts, sessions, issued, handedOut, logout, cp, refresh, validate>>

\* What the last step of Login returns; storeFail: SaveSession fails.
LoginSaveResult(storeFail) ==
    IF storeFail
    THEN [token |-> NoToken, refreshToken |-> NoRefresh, err |-> ErrStore]
    ELSE [token |-> login.token, refreshToken |-> login.refreshToken, err |-> ErrNil]

\* Lines 170-178: save the session and return the token pair.
LoginSave(storeFail) ==
    /\ login.pc = "stamped"
    /\ IF LoginSaveResult(storeFail).err # ErrNil
       THEN UNCHANGED <<sessions, handedOut>>
       ELSE /\ sessions' = SaveSession(login.uid, login.token, login.refreshToken,
                                       login.expiresAt)
            /\ handedOut' = handedOut \cup {<<login.token, login.refreshToken>>}
    /\ login' = IdleLogin
    /\ UNCHANGED <<now, ttl, accounts, issued, logout, cp, refresh, validate>>

\* ---------------------------------------------------- RefreshAccountSession
\* RefreshAccountSession makes its store calls and reads the clock one after the
\* other, and other requests run in between: AccountById (313), App (321),
\* SessionByRefreshToken (329), time.Now() (335), the clock inside jwt.NewToken
\* (340), time.Now() (352), SaveSession (354).

\* Lines 313-317: the account lookup.  storeFail: AccountById fails with an
\* error that is not a miss.
RefreshAccountError(accountID, storeFail) ==
    IF storeFail THEN ErrStore
    ELSE IF ~AccountExists(accountID) THEN ErrAccountNotFound
    ELSE ErrNil

\* Lines 313-317: fetch the account.  A call stopped here returns
\* ("", "", 0, RefreshAccountError).
RefreshAccount(accountID, refreshToken, storeFail) ==
    /\ refresh.pc = "idle"
    /\ IF RefreshAccountError(accountID, storeFail) # ErrNil
       THEN UNCHANGED refresh
       ELSE refresh' = [IdleRefresh EXCEPT !.pc = "account",
                                           !.uid = accountID,
                                           !.appId = accounts[accountID].appId,
                                           !.presented = refreshToken]
    /\ UNCHANGED <<now, ttl, accounts, sessions, issued, handedOut, logout, cp, login, validate>>

\* Variant of RefreshAppError: the app of the account is not looked up.
RefreshAppUnchecked(appID, storeFail) ==
    IF storeFail THEN ErrStore ELSE ErrNil

\* Lines 321-325: the lookup of account.AppId.  storeFail: App fails with an
\* error that is not a miss.
RefreshAppError(appID, storeFail) ==
    IF storeFail THEN ErrStore
    ELSE IF appID \notin Apps THEN ErrAppNotFound
    ELSE ErrNil

\* Lines 321-325: fetch the app.  A call stopped here returns
\* ("", "", 0, RefreshAppError).
RefreshApp(storeFail) ==
    /\ refresh.pc = "account"
    /\ IF RefreshAppError(refresh.appId, storeFail) # ErrNil
       THEN refresh' = IdleRefresh
       ELSE refresh' = [refresh EXCEPT !.pc = "fetched"]
    /\ UNCHANGED <<now, ttl, accounts, sessions, issued, handedOut, logout, cp, login, validate>>

\* Lines 329-333: the session lookup.  storeFail: SessionByRefreshToken fails
\* with an error that is not a miss.
RefreshFindError(storeFail) ==
    IF storeFail THEN ErrStore
    ELSE IF ~HasRefresh(refresh.presented) THEN ErrSessionNotFound
    ELSE ErrNil

\* Lines 329-333: look the session up by the refresh token.  A call stopped
\* here returns ("", "", 0, RefreshFindError).
RefreshFind(storeFail) ==
    /\ refresh.pc = "fetched"
    /\ IF RefreshFindError(storeFail) # ErrNil
       THEN refresh' = IdleRefresh
       ELSE refresh' = [refresh EXCEPT
                           !.pc = "found",
                           !.owner = SessionByRefreshToken(refresh.presented).uid,
                           !.deadline =
                               SessionByRefreshToken(refresh.presented).refreshExpiresAt]
    /\ UNCHANGED <<now, ttl, accounts, sessions, issued, handedOut, logout, cp, login, validate>>

\* Variant of RefreshExpired: the deadline itself counts as expired.
RefreshExpiredInclusive(refreshExpiresAt) == refreshExpiresAt <= now

\* Line 335: session.RefreshExpiresAt.Before(time.Now())
RefreshExpired(refreshExpiresAt) == refreshExpiresAt < now

\* Lines 335-338: the error of the expiry branch (err is nil there), or nil.
RefreshCheckError ==
    IF RefreshExpired(refresh.deadline) THEN ErrWrappedNil ELSE ErrNil

\* Lines 335-338: the deadline check.  A call stopped here returns
\* ("", "", 0, RefreshCheckError).
RefreshCheck ==
    /\ refresh.pc = "found"
    /\ IF RefreshCheckError # ErrNil
       THEN refresh' = IdleRefresh
       ELSE refresh' = [refresh EXCEPT !.pc = "checked"]
    /\ UNCHANGED <<now, ttl, accounts, sessions, issued, handedOut, logout, cp, login, validate>>

\* Variant of RefreshNewRefreshToken: the presented refresh token is kept.
RefreshKeepPresented(presented) == presented

\* Line 346: the refresh token of the new session.
RefreshNewRefreshToken(presented) == generateRefreshToken(issued + 1)

\* Lines 340-350: jwt.NewToken, which reads the clock, and generateRefreshToken.
\* A call stopped here returns ("", "", 0, MintError).
RefreshMint(fault) ==
    /\ refresh.pc = "checked"
    /\ IF MintError(fault) # ErrNil
       THEN /\ refresh' = IdleRefresh
            /\ UNCHANGED issued
       ELSE /\ issued < MaxIssued
            /\ issued' = issued + 1
            /\ refresh' = [refresh EXCEPT
                              !.pc = "minted",
                              !.token = NewToken(accounts[refresh.uid], refresh.appId,
                                                 tokenTTL),
                              !.refreshToken = RefreshNewRefreshToken(refresh.presented)]
    /\ UNCHANGED <<now, ttl, accounts, sessions, handedOut, logout, cp, login, validate>>

\* Variant of RefreshNewExpiry: the deadline of the access token is used.
RefreshNewExpiryTokenTTL == now + tokenTTL

\* Line 352: expiresAt := time.Now().Add(a.refreshTokenTTL)
RefreshNewExpiry == now + refreshTokenTTL

\* Line 352: the third reading of the clock.
RefreshStamp ==
    /\ refresh.pc = "minted"
    /\ refresh' = [refresh EXCEPT !.pc = "stamped", !.expiresAt = RefreshNewExpiry]
    /\ UNCHANGED <<now, ttl, accounts, sessions, issued, handedOut, logout, cp, login, validate>>

\* What the last step of RefreshAccountSession returns; storeFail: SaveSession
\* fails.
RefreshSaveResult(storeFail) ==
    IF storeFail
    THEN [token |-> NoToken, refreshToken |-> NoRefresh, expiresAt |-> 0, err |-> ErrStore]
    ELSE [token |-> refresh.token, refreshToken |-> refresh.refreshToken,
          expiresAt |-> refresh.expiresAt, err |-> ErrNil]

\* Variant of RefreshSave: the presented session is replaced by the new one.
RefreshSaveReplace(storeFail) ==
    /\ refresh.pc = "stamped"
    /\ IF RefreshSaveResult(storeFail).err # ErrNil
       THEN UNCHANGED <<sessions, handedOut>>
       ELSE /\ sessions' =
                   Append(SelectRows(sessions, 1,
                                     {i \in 1 .. Len(sessions) :
                                          sessions[i].refreshToken # refresh.presented}),
                          [uid |-> refresh.uid, token |-> refresh.token,
                           refreshToken |-> refresh.refreshToken,
                           expiresAt |-> refresh.token.exp,
                           refreshExpiresAt |-> refresh.expiresAt])
            /\ handedOut' = handedOut \cup {<<refresh.token, refresh.refreshToken>>}
    /\ refresh' = IdleRefresh
    /\ UNCHANGED <<now, ttl, accounts, issued, logout, cp, login, validate>>

\* Lines 354-362: save the new session and return the pair and the expiry.
RefreshSave(storeFail) ==
    /\ refresh.pc = "stamped"
    /\ IF RefreshSaveResult(storeFail).err # ErrNil
       THEN UNCHANGED <<sessions, handedOut>>
       ELSE /\ sessions' = SaveSession(refresh.uid, refresh.token, refresh.refreshToken,
                                       refresh.expiresAt)
            /\ handedOut' = handedOut \cup {<<refresh.token, refresh.refreshToken>>}
    /\ refresh' = IdleRefresh
    /\ UNCHANGED <<now, ttl, accounts, issued, logout, cp, login, validate>>

\* --------------------------------------------------- ValidateAccountSession
\* ValidateAccountSession reads the Session Store (375) and later the clock
\* (381); other requests run in between, and the test of line 381 is made on
\* the session as it was read.

\* Line 381: session.ExpiresAt.Before(time.Now())
SessionExpired(session) == session.expiresAt < now

\* Lines 375-379: the session lookup.  storeFail: Session fails with an error
\* that is not a miss.
ValidateFindError(token, storeFail) ==
    IF storeFail THEN ErrStore
    ELSE IF ~HasSession(token) THEN ErrSessionNotFound
    ELSE ErrNil

\* Lines 375-379: look the session up.  A call stopped here returns
\* (false, 0, ValidateFindError).
ValidateFind(token, storeFail) ==
    /\ validate.pc = "idle"
    /\ IF ValidateFindError(token, storeFail) # ErrNil
       THEN UNCHANGED validate
       ELSE validate' = [pc |-> "found", session |-> Session(token)]
    /\ UNCHANGED <<now, ttl, accounts, sessions, issued, handedOut, logout, cp, login, refresh>>

\* Lines 381-387: what the call returns for the session it read.
ValidateCheckResult(session) ==
    IF SessionExpired(session)
    THEN [valid |-> FALSE, expiresAt |-> session.expiresAt, err |-> ErrNil]
    ELSE [valid |-> TRUE, expiresAt |-> session.expiresAt, err |-> ErrNil]

\* Lines 381-387: read the clock, test the expiry of the session read before
\* and return ValidateCheckResult(validate.session).
ValidateCheck ==
    /\ validate.pc = "found"
    /\ validate' = IdleValidate
    /\ UNCHANGED <<now, ttl, accounts, sessions, issued, handedOut, logout, cp, login, refresh>>

\* Variant of ValidateAccountSessionResult: a lookup miss is reported as "not valid".
ValidateSwallowsLookupError(token) ==
    IF ~HasSession(token)
    THEN [valid |-> FALSE, expiresAt |-> 0, err |-> ErrNil]
    ELSE [valid |-> ~SessionExpired(Session(token)),
          expiresAt |-> Session(token).expiresAt, err |-> ErrNil]

\* What ValidateAccountSession(token) returns when the store answers and no
\* step of another request falls between its lookup and its clock reading.
ValidateAccountSessionResult(token) ==
    IF ValidateFindError(token, FALSE) # ErrNil
    THEN [valid |-> FALSE, expiresAt |-> 0, err |-> ValidateFindError(token, FALSE)]
    ELSE ValidateCheckResult(Session(token))

\* ----------------------------------------------------- RevokeAccountSession
\* What RevokeAccountSession(token) returns; storeFail: the store's RevokeSession fails.
RevokeAccountSessionResult(token, storeFail) ==
    IF storeFail THEN [ok |-> FALSE, err |-> ErrStore] ELSE [ok |-> TRUE, err |-> ErrNil]

RevokeAccountSession(token, storeFail) ==
    /\ IF RevokeAccountSessionResult(token, storeFail).err # ErrNil
       THEN UNCHANGED sessions
       ELSE sessions' = RevokeSession(token)
    /\ UNCHANGED <<now, ttl, accounts, issued, handedOut, logout, cp, login, refresh, validate>>

\* ------------------------------------------------- GetActiveAccountSessions
\* Variant of GetActiveAccountSessionsResult: the engine drops the sessions that
\* are past their expiry from the list of the store.
GetActiveAccountSessionsFiltered(accountID, storeFail) ==
    IF storeFail THEN [sessions |-> <<>>, err |-> ErrStore]
    ELSE [sessions |->
              SelectRows(Sessions(accountID), 1,
                         {i \in 1 .. Len(Sessions(accountID)) :
                              ~SessionExpired(Sessions(accountID)[i])}),
          err |-> ErrNil]

\* What GetActiveAccountSessions(accountID) returns; storeFail: Sessions fails.
GetActiveAccountSessionsResult(accountID, storeFail) ==
    IF storeFail THEN [sessions |-> <<>>, err |-> ErrStore]
    ELSE [sessions |-> Sessions(accountID), err |-> ErrNil]

\* A read: no store changes.
GetActiveAccountSessions(accountID, storeFail) ==
    /\ Len(GetActiveAccountSessionsResult(accountID, storeFail).sessions) <= Len(sessions)
    /\ UNCHANGED vars

\* ------------------------------------------------------------- ChangeStatus
\* What ChangeStatus(accountID, status) returns; storeFail: UpdateStatus fails.
ChangeStatusResult(accountID, status, storeFail) ==
    [status |-> status, err |-> IF storeFail THEN ErrStore ELSE ErrNil]

ChangeStatus(accountID, status, storeFail) ==
    /\ IF ChangeStatusResult(accountID, status, storeFail).err # ErrNil
       THEN UNCHANGED accounts
       ELSE accounts' = UpdateStatus(accountID, status)
    /\ UNCHANGED <<now, ttl, sessions, issued, handedOut, logout, cp, login, refresh, validate>>

\* ------------------------------------------------------------------- Logout
\* Lines 204-208, and the return of line 219 when the list is empty.
\* storeFail: the store's Sessions fails.
LogoutBegin(accountID, storeFail) ==
    /\ logout.pc # "revoking"
    /\ logout' =
         IF storeFail
         THEN [pc |-> "failed", acct |-> accountID, list |-> <<>>, k |-> 0, revoked |-> {}]
         ELSE [pc |-> IF Sessions(accountID) = <<>> THEN "done" ELSE "revoking",
               acct |-> accountID, list |-> Sessions(accountID),
               k |-> 1, revoked |-> {}]
    /\ UNCHANGED <<now, ttl, accounts, sessions, issued, handedOut, cp, login, refresh, validate>>

\* Variant of LogoutRevoke: a failed revoke is skipped and the loop goes on.
LogoutRevokeContinue(storeFail) ==
    /\ logout.pc = "revoking"
    /\ IF storeFail
       THEN /\ logout' = [logout EXCEPT
                             !.k = @ + 1,
                             !.pc = IF logout.k = Len(logout.list) THEN "failed" ELSE @]
            /\ UNCHANGED sessions
       ELSE /\ sessions' = RevokeSession(logout.list[logout.k].token)
            /\ logout' = [logout EXCEPT
                             !.k = @ + 1,
                             !.revoked = @ \cup {logout.list[logout.k]},
                             !.pc = IF logout.k = Len(logout.list) THEN "done" ELSE @]
    /\ UNCHANGED <<now, ttl, accounts, issued, handedOut, cp, login, refresh, validate>>

\* Variant of LogoutRevoke: each iteration revokes whatever the account holds at
\* that moment rather than the listed session.
LogoutRevokeByAccount(storeFail) ==
    /\ logout.pc = "revoking"
    /\ IF storeFail
       THEN /\ logout' = [logout EXCEPT !.pc = "failed"]
            /\ UNCHANGED sessions
       ELSE /\ sessions' = SelectRows(sessions, 1,
                                      {i \in 1 .. Len(sessions) :
                                           sessions[i].uid # logout.acct})
            /\ logout' = [logout EXCEPT
                             !.k = @ + 1,
                             !.revoked = @ \cup {logout.list[logout.k]},
                             !.pc = IF logout.k = Len(logout.list) THEN "done" ELSE @]
    /\ UNCHANGED <<now, ttl, accounts, issued, handedOut, cp, login, refresh, validate>>

\* Lines 210-219: one iteration of the revoke loop, and the return after the
\* last one.  storeFail: the store's RevokeSession fails for this session.
\* pc = "done": Logout returned (true, nil); pc = "failed": (false, err).
LogoutRevoke(storeFail) ==
    /\ logout.pc = "revoking"
    /\ IF storeFail
       THEN /\ logout' = [logout EXCEPT !.pc = "failed"]
            /\ UNCHANGED sessions
       ELSE /\ sessions' = RevokeSession(logout.list[logout.k].token)
            /\ logout' = [logout EXCEPT
                             !.k = @ + 1,
                             !.revoked = @ \cup {logout.list[logout.k]},
                             !.pc = IF logout.k = Len(logout.list) THEN "done" ELSE @]
    /\ UNCHANGED <<now, ttl, accounts, issued, handedOut, cp, login, refresh, validate>>

\* ----------------------------------------------------------- ChangePassword
\* Lines 232-247: what stops the call before the write.
ChangePasswordCheckError(accountID, oldPassword, newPassword) ==
    IF ~AccountExists(accountID) THEN ErrAccountNotFound
    ELSE IF ~CompareHashAndPassword(accounts[accountID].passHash, oldPassword)
    THEN ErrInvalidCredentials
    ELSE IF TooLong(newPassword) THEN ErrHash
    ELSE ErrNil

\* Lines 232-247: fetch the account, verify the old password, hash the new one.
\* A call stopped here returns (false, ChangePasswordCheckError).
ChangePasswordVerify(c, accountID, oldPassword, newPassword) ==
    /\ cp[c].pc = "idle"
    /\ IF ChangePasswordCheckError(accountID, oldPassword, newPassword) # ErrNil
       THEN UNCHANGED cp
       ELSE cp' = [cp EXCEPT ![c] = [pc |-> "verified", acct |-> accountID,
                                     old |-> oldPassword, new |-> newPassword]]
    /\ UNCHANGED <<now, ttl, accounts, sessions, issued, handedOut, logout, login, refresh, validate>>

\* What the write step of ChangePassword returns; storeFail: UpdatePassword fails.
ChangePasswordWriteResult(storeFail) ==
    IF storeFail THEN [ok |-> FALSE, err |-> ErrStore] ELSE [ok |-> TRUE, err |-> ErrNil]

\* Variant of NewPassHash: the old password is hashed.
NewPassHashOfOld(c) == GenerateFromPassword(cp[c].old)

\* Line 243: the hash ChangePassword call c writes.
NewPassHash(c) == GenerateFromPassword(cp[c].new)

\* Variant of ChangePasswordWrite: the write is conditional on the hash that was
\* verified still being the stored one.
ChangePasswordWriteIfUnchanged(c, storeFail) ==
    /\ cp[c].pc = "verified"
    /\ IF \/ ChangePasswordWriteResult(storeFail).err # ErrNil
          \/ ~CompareHashAndPassword(accounts[cp[c].acct].passHash, cp[c].old)
       THEN UNCHANGED accounts
       ELSE accounts' = UpdatePassword(cp[c].acct, NewPassHash(c))
    /\ cp' = [cp EXCEPT ![c] = IdleCP]
    /\ UNCHANGED <<now, ttl, sessions, issued, handedOut, logout, login, refresh, validate>>

\* Lines 249-256: write the new hash and return.
ChangePasswordWrite(c, storeFail) ==
    /\ cp[c].pc = "verified"
    /\ IF ChangePasswordWriteResult(storeFail).err # ErrNil
       THEN UNCHANGED accounts
       ELSE accounts' = UpdatePassword(cp[c].acct, NewPassHash(c))
    /\ cp' = [cp EXCEPT ![c] = IdleCP]
    /\ UNCHANGED <<now, ttl, sessions, issued, handedOut, logout, login, refresh, validate>>

\* ------------------------------------------------------------ specifications
DoTick == Tick
DoRegister == \E r \in RegInputs, f \in BOOLEAN : RegisterNewAccount(r[1], r[2], r[3], r[4], f)
DoLoginAccount ==
    \E i \in LoginInputs, f \in BOOLEAN : LoginAccount(i[1], i[2], i[3], f)
DoLoginApp == \E f \in BOOLEAN : LoginApp(f)
DoLoginMint == \E f \in MintFaults : LoginMint(f)
DoLoginStamp == LoginStamp
DoLoginSave == \E f \in BOOLEAN : LoginSave(f)
DoRefreshAccount ==
    \E id \in AccountIds, rt \in RefreshInputs, f \in BOOLEAN : RefreshAccount(id, rt, f)
DoRefreshApp == \E f \in BOOLEAN : RefreshApp(f)
DoRefreshFind == \E f \in BOOLEAN : RefreshFind(f)
DoRefreshCheck == RefreshCheck
DoRefreshMint == \E f \in MintFaults : RefreshMint(f)
DoRefreshStamp == RefreshStamp
DoRefreshSave == \E f \in BOOLEAN : RefreshSave(f)
DoValidateFind == \E t \in TokenInputs, f \in BOOLEAN : ValidateFind(t, f)
DoValidateCheck == ValidateCheck
DoRevoke == \E t \in TokenInputs, f \in BOOLEAN : RevokeAccountSession(t, f)
DoGetSessions == \E id \in AccountIds, f \in BOOLEAN : GetActiveAccountSessions(id, f)
DoChangeStatus == \E i \in StatusInputs, f \in BOOLEAN : ChangeStatus(i[1], i[2], f)
DoLogoutBegin == \E id \in AccountIds, f \in BOOLEAN : LogoutBegin(id, f)
DoLogoutRevoke == \E f \in BOOLEAN : LogoutRevoke(f)
DoChangePasswordVerify ==
    \E c \in CPCallers, i \in CPInputs : ChangePasswordVerify(c, i[1], i[2], i[3])
DoChangePasswordWrite == \E c \in CPCallers, f \in BOOLEAN : ChangePasswordWrite(c, f)

\* The steps of a Login call, of a RefreshAccountSession call and of a
\* ValidateAccountSession call.
DoLogin == DoLoginAccount \/ DoLoginApp \/ DoLoginMint \/ DoLoginStamp \/ DoLoginSave
DoRefresh ==
    \/ DoRefreshAccount \/ DoRefreshApp \/ DoRefreshFind \/ DoRefreshCheck
    \/ DoRefreshMint \/ DoRefreshStamp \/ DoRefreshSave
DoValidate == DoValidateFind \/ DoValidateCheck

\* Every request kind, interleaved freely.
Next ==
    \/ DoTick \/ DoRegister \/ DoLogin \/ DoRefresh \/ DoValidate \/ DoRevoke
    \/ DoGetSessions \/ DoChangeStatus \/ DoLogoutBegin \/ DoLogoutRevoke
    \/ DoChangePasswordVerify \/ DoChangePasswordWrite

Spec == Init /\ [][Next]_vars

\* The session lifecycle: sessions are issued, refreshed, validated, listed and
\* revoked while the clock runs.
NextSession ==
    \/ DoTick \/ DoRegister \/ DoLogin \/ DoRefresh \/ DoValidate \/ DoRevoke
    \/ DoGetSessions

SpecSession == Init /\ [][NextSession]_vars

\* The issuing of sessions: Login and RefreshAccountSession against each other
\* and against revocation while the clock runs.
NextIssue == DoTick \/ DoRegister \/ DoLogin \/ DoRefresh \/ DoRevoke

SpecIssue == Init /\ [][NextIssue]_vars

\* Logout against the issuing of sessions while the clock runs.
\* Logout reads no TTL and no expiry: one configuration stands for all.
InitLogout == Init /\ ttl = <<1, 2>>

NextLogout ==
    \/ DoTick \/ DoRegister \/ DoLogin \/ DoRefresh \/ DoLogoutBegin \/ DoLogoutRevoke

SpecLogout == InitLogout /\ [][NextLogout]_vars

\* The account lifecycle: registration, login, password and status changes.
NextAccount ==
    \/ DoRegister \/ DoLogin \/ DoChangeStatus
    \/ DoChangePasswordVerify \/ DoChangePasswordWrite

SpecAccount == Init /\ [][NextAccount]_vars

\* Status changes against issuance and validation of sessions.
NextStatus ==
    \/ DoTick \/ DoRegister \/ DoLogin \/ DoRefresh \/ DoValidate \/ DoChangeStatus

SpecStatus == Init /\ [][NextStatus]_vars

\* One account, and one ChangePassword request at a time (caller 1).
DoRegisterOne == \E f \in BOOLEAN : RegisterNewAccount("a@x.com", "pw123", "USER", 1, f)
DoChangePasswordVerifyOne ==
    \E i \in CPInputs : ChangePasswordVerify(1, i[1], i[2], i[3])
DoChangePasswordWriteOne == \E f \in BOOLEAN : ChangePasswordWrite(1, f)

\* Revocation against everything that writes a store, and against validation:
\* the sessions of an account are issued, validated and revoked while its
\* password and status change.  The clock stands still here, so the TTLs only
\* label the expiries and one configuration stands for all.
InitRevocation == Init /\ ttl = <<1, 2>>

NextRevocation ==
    \/ DoRegisterOne \/ DoLogin \/ DoRefresh \/ DoValidate \/ DoRevoke
    \/ DoLogoutBegin \/ DoLogoutRevoke \/ DoChangeStatus
    \/ DoChangePasswordVerifyOne \/ DoChangePasswordWriteOne

SpecRevocation == InitRevocation /\ [][NextRevocation]_vars

\* ------------------------------------------------------------------- claims
\* C1 (as claimed): for the session it read from the store,
\* ValidateAccountSession returns no error and the stored expiry, with
\* valid = FALSE whenever the time it reads is at or after expiresAt (equality
\* included) and valid = TRUE whenever it is before expiresAt.
C1_ValidFalseFromDeadline ==
    validate.pc = "found" =>
        LET s == validate.session
            r == ValidateCheckResult(s)
        IN  /\ r.err = ErrNil
            /\ r.expiresAt = s.expiresAt
            /\ r.valid = (now < s.expiresAt)

\* The first m sessions of the list of the Logout call, and their tokens.
ListedUpTo(m) == {logout.list[i] : i \in 1 .. m}
ListedTokensUpTo(m) == {logout.list[i].token : i \in 1 .. m}

\* The session (row) is in the Session Store.
Stored(session) == \E i \in 1 .. Len(sessions) : sessions[i] = session

\* The frame of the Logout call agrees with what the call has revoked so far:
\* the sessions revoked are the first k-1 of the list, none of them is stored,
\* all are the account's.
C2_Frame ==
    LET n == Len(logout.list)
    IN  /\ logout.pc = "revoking" =>
               logout.k \in 1 .. n /\ logout.revoked = ListedUpTo(logout.k - 1)
        /\ (logout.pc = "failed" /\ n > 0) =>
               logout.k \in 1 .. n /\ logout.revoked = ListedUpTo(logout.k - 1)
        /\ logout.pc = "done" =>
               logout.k = n + 1 /\ logout.revoked = ListedUpTo(n)
        /\ \A s \in logout.revoked : ~Stored(s) /\ s.uid = logout.acct

\* C2 (as claimed): when Logout has failed at the k-th listed session, sessions
\* 1..k-1 of the list are revoked and sessions k..n are not; and while it is at
\* the k-th, sessions k..n are still stored.  (No other request revokes here.)
C2_RestUntouched ==
    LET n == Len(logout.list)
    IN  logout.pc \in {"revoking", "failed"} =>
            \A i \in 1 .. n :
                /\ i < logout.k => ~Stored(logout.list[i])
                /\ i >= logout.k => Stored(logout.list[i])

\* While Logout is at the k-th listed session, or has failed there, the
\* sessions k..n of the list that do not carry the access token of one of
\* 1..k-1 are still stored.  (No other request revokes here.)
C2_RestByToken ==
    LET n == Len(logout.list)
    IN  logout.pc \in {"revoking", "failed"} =>
            \A i \in 1 .. n :
                (i >= logout.k /\ logout.list[i].token \notin ListedTokensUpTo(logout.k - 1))
                    => Stored(logout.list[i])

\* C2 (amended): Logout revokes the listed sessions one at a time in list
\* order, each by its access token.  A failing revoke of the k-th session ends
\* the call with failure at once and changes no session; a succeeding one
\* removes every session stored under the access token of the k-th listed
\* session and no session under another token (of this or another account).  On
\* failure exactly sessions 1..k-1 of the list were revoked by the call and stay
\* revoked, and the sessions among k..n that share no access token with them
\* are still stored; on success all listed sessions were revoked.
C2_LogoutFailFast ==
    /\ []C2_RestByToken
    /\ [][ /\ C2_Frame'
           /\ \A f \in BOOLEAN :
                  (logout.pc = "revoking" /\ logout' # logout /\ LogoutRevoke(f)) =>
                      /\ f => (logout'.pc = "failed" /\ sessions' = sessions
                               /\ logout'.k = logout.k)
                      /\ ~f => /\ logout'.pc = (IF logout.k = Len(logout.list)
                                                THEN "done" ELSE "revoking")
                               /\ \A i \in 1 .. Len(sessions') :
                                      sessions'[i].token # logout.list[logout.k].token
                      /\ \A i \in 1 .. Len(sessions) :
                             \/ sessions[i].token # logout.list[logout.k].token
                             \/ sessions[i].uid # logout.acct
                             => \E j \in 1 .. Len(sessions') : sessions'[j] = sessions[i]
         ]_vars

\* C2 witness: Logout failed at the second listed session; the first is revoked,
\* the second, which carries another access token, is still stored.
C2_Witness ==
    /\ logout.pc = "failed"
    /\ logout.k = 2
    /\ ~Stored(logout.list[1])
    /\ Stored(logout.list[2])
    /\ logout.list[1].token # logout.list[2].token

\* C3 (as claimed): the token pair a successful RefreshAccountSession returns is
\* new: neither its access token nor its refresh token was handed out before.
C3_ReturnsNewTokens ==
    [][ (refresh.pc = "stamped" /\ RefreshSave(FALSE)) =>
            \A p \in handedOut :
                p[1] # refresh.token /\ p[2] # refresh.refreshToken
      ]_vars

\* C3 (amended): the deadline check of RefreshAccountSession (line 335) refuses
\* the call exactly when the refreshExpiresAt of the session it found is before
\* the time it reads: the call then returns the wrapped-nil error of the expiry
\* branch with empty tokens and saves no session.  When the time read is at or
\* before the deadline the call goes on and, signer, random source and store
\* succeeding, saves one session and returns a token pair that was not handed
\* out before, with a refresh token that was not handed out before and an
\* access token signed for the account named, its app and the time the call
\* read plus tokenTTL (the string every signing of that payload gives).
C3_RefreshExpiry ==
    [][ /\ (refresh.pc = "found" /\ refresh' # refresh) =>
               /\ refresh.deadline < now =>
                      /\ RefreshCheckError = ErrWrappedNil
                      /\ refresh' = IdleRefresh
                      /\ sessions' = sessions /\ handedOut' = handedOut
               /\ now <= refresh.deadline =>
                      /\ RefreshCheckError = ErrNil
                      /\ refresh' = [refresh EXCEPT !.pc = "checked"]
                      /\ sessions' = sessions
        /\ (refresh.pc = "checked" /\ RefreshMint("none")) =>
               /\ refresh'.pc = "minted"
               /\ refresh'.token # NoToken /\ refresh'.refreshToken # NoRefresh
               /\ refresh'.token =
                      [uid |-> refresh.uid, appId |-> refresh.appId,
                       exp |-> now + tokenTTL]
        /\ (refresh.pc = "minted" /\ refresh' # refresh) => refresh'.pc = "stamped"
        /\ (refresh.pc = "stamped" /\ RefreshSave(FALSE)) =>
               /\ RefreshSaveResult(FALSE) =
                      [token |-> refresh.token, refreshToken |-> refresh.refreshToken,
                       expiresAt |-> refresh.expiresAt, err |-> ErrNil]
               /\ <<refresh.token, refresh.refreshToken>> \notin handedOut
               /\ \A p \in handedOut : p[2] # refresh.refreshToken
               /\ refresh.token.uid = refresh.uid
               /\ refresh.token.appId = refresh.appId
               /\ refresh.token.exp - tokenTTL \in 0 .. now
               /\ Len(sessions') = Len(sessions) + 1
               /\ sessions'[Len(sessions')].token = refresh.token
               /\ sessions'[Len(sessions')].refreshToken = refresh.refreshToken
      ]_vars

\* C3 witness: a call passed the deadline check with a session exactly at its
\* refresh deadline and can go on to mint, while the clock stands at that
\* deadline.
C3_Witness ==
    /\ refresh.pc = "checked"
    /\ refresh.deadline = now
    /\ issued < MaxIssued
    /\ HasRefresh(refresh.presented)

\* C4: the step with which a RefreshAccountSession returns success appends
\* exactly one session and leaves every stored session as it was.  When the
\* session whose refresh token was presented is still stored, it is stored
\* unmodified afterwards, ValidateAccountSession on its access token answers as
\* before the step, and a further lookup by its refresh token finds it again.
C4_RefreshAdditive ==
    [][ (refresh.pc = "stamped" /\ RefreshSave(FALSE)) =>
            /\ Len(sessions') = Len(sessions) + 1
            /\ SubSeq(sessions', 1, Len(sessions)) = sessions
            /\ sessions'[Len(sessions')].refreshToken # refresh.presented
            /\ HasRefresh(refresh.presented) =>
                   \A old \in {SessionByRefreshToken(refresh.presented)},
                      was \in {ValidateAccountSessionResult(
                                   SessionByRefreshToken(refresh.presented).token)} :
                       /\ \E i \in 1 .. Len(sessions') : sessions'[i] = old
                       /\ ValidateAccountSessionResult(old.token)' = was
                       /\ was.err = ErrNil /\ was.expiresAt = old.expiresAt
                       /\ SessionByRefreshToken(old.refreshToken)' = old
                       /\ old.refreshToken = refresh.presented
      ]_vars

\* C4 witness: a refresh is about to save its new session while the session
\* whose refresh token it presented is stored and validates.
C4_Witness ==
    /\ refresh.pc = "stamped"
    /\ HasRefresh(refresh.presented)
    /\ ValidateAccountSessionResult(SessionByRefreshToken(refresh.presented).token).valid

\* The refresh tokens of the stored sessions and of the pairs handed out.
C5_Minted ==
    {p[2] : p \in handedOut}
        \cup {sessions[i].refreshToken : i \in 1 .. Len(sessions)}

\* C5: no two stored sessions share a refresh token and no refresh token was
\* handed out twice; the refresh token a Login or a RefreshAccountSession has
\* minted and is about to save and return is none of the stored ones, none of
\* those handed out (the one presented included), and not the one the other
\* call in flight has minted.
C5_RefreshTokensUnique ==
    /\ \A i, j \in 1 .. Len(sessions) :
           i # j => sessions[i].refreshToken # sessions[j].refreshToken
    /\ \A p, q \in handedOut : p # q => p[2] # q[2]
    /\ login.pc \in {"minted", "stamped"} => login.refreshToken \notin C5_Minted
    /\ refresh.pc \in {"minted", "stamped"} =>
           /\ refresh.refreshToken \notin C5_Minted
           /\ refresh.refreshToken # refresh.presented
    /\ (login.pc \in {"minted", "stamped"} /\ refresh.pc \in {"minted", "stamped"}) =>
           login.refreshToken # refresh.refreshToken

\* C5 witness: a refresh that presented a stored refresh token is about to save
\* the pair it minted, after a Login saved a session.
C5_Witness ==
    /\ refresh.pc = "stamped"
    /\ HasRefresh(refresh.presented)
    /\ Len(sessions) >= 1

\* Token strings a caller can make up.
TokenShapes ==
    [uid : 1 .. Cardinality(Emails), appId : AppIds, exp : 0 .. (MaxTime + 3)]

\* C6: ValidateAccountSession on a token no successful Login or
\* RefreshAccountSession returned stops at the lookup and gives (false, 0) with
\* the SessionNotFound error; a call that got past the lookup, and so returns
\* without an error, presented a token that was handed out.
C6_UnknownTokenNotFound ==
    /\ \A t \in TokenShapes \ {p[1] : p \in handedOut} :
           /\ ValidateFindError(t, FALSE) = ErrSessionNotFound
           /\ ValidateAccountSessionResult(t) =
                  [valid |-> FALSE, expiresAt |-> 0, err |-> ErrSessionNotFound]
    /\ validate.pc = "found" =>
           validate.session.token \in {p[1] : p \in handedOut}

\* C6 witness: a made-up token names the account and the app of a stored,
\* unexpired session and differs from its token in the expiry only.
C6_Witness ==
    \E t \in TokenShapes \ {p[1] : p \in handedOut}, i \in 1 .. Len(sessions) :
        /\ t.uid = sessions[i].token.uid
        /\ t.appId = sessions[i].token.appId
        /\ t.exp > sessions[i].token.exp
        /\ ValidateAccountSessionResult(sessions[i].token).valid

\* Login with an unknown email and Login with a known email and a wrong password
\* return the same error, InvalidCredentials, whatever the app.
C7_SameFailure ==
    \A i1, i2 \in LoginInputs :
        (/\ AccountByEmail(i1[1]) = 0
         /\ AccountByEmail(i2[1]) # 0
         /\ ~CompareHashAndPassword(accounts[AccountByEmail(i2[1])].passHash, i2[2])) =>
            /\ LoginCredentialError(i1[1], i1[2], FALSE) = ErrInvalidCredentials
            /\ LoginCredentialError(i2[1], i2[2], FALSE) = ErrInvalidCredentials

\* C7: Login with an unknown email and Login with a known email and a wrong
\* password fail alike: both return InvalidCredentials (with the empty tokens of
\* every return before line 178), and the step either returns with changes
\* nothing, no store and no call in flight.
C7_LoginFailuresAlike ==
    /\ []C7_SameFailure
    /\ [][ \A i \in LoginInputs :
               (/\ LoginCredentialError(i[1], i[2], FALSE) = ErrInvalidCredentials
                /\ LoginAccount(i[1], i[2], i[3], FALSE)) =>
                   UNCHANGED vars
         ]_vars

\* C7 witness: one email is registered and the other is not.
C7_Witness ==
    \E i1, i2 \in LoginInputs :
        /\ AccountByEmail(i1[1]) = 0
        /\ AccountByEmail(i2[1]) # 0
        /\ ~CompareHashAndPassword(accounts[AccountByEmail(i2[1])].passHash, i2[2])

\* C8: a successful RegisterNewAccount appends exactly one account, ACTIVE, with
\* the given email, role and appId and a hash of the given password, returns its
\* id and leaves the Session Store unchanged; a failed one (password too long,
\* duplicate email, store failure) returns id 0 with an error and leaves both
\* stores unchanged.
C8_RegisterFrame ==
    \A i \in RegInputs, f \in BOOLEAN :
        LET r == RegisterNewAccountResult(i[1], i[2], i[3], i[4], f)
            st == RegisterNewAccountStores(i[1], i[2], i[3], i[4], f)
        IN  /\ (TooLong(i[2]) \/ f \/ AccountByEmail(i[1]) # 0) <=> r.err # ErrNil
            /\ r.err # ErrNil =>
                   r.id = 0 /\ st = [accounts |-> accounts, sessions |-> sessions]
            /\ r.err = ErrNil =>
                   /\ r.id = Len(accounts) + 1
                   /\ st.sessions = sessions
                   /\ Len(st.accounts) = Len(accounts) + 1
                   /\ SubSeq(st.accounts, 1, Len(accounts)) = accounts
                   /\ st.accounts[r.id].id = r.id
                   /\ st.accounts[r.id].email = i[1]
                   /\ CompareHashAndPassword(st.accounts[r.id].passHash, i[2])
                   /\ st.accounts[r.id].role = i[3]
                   /\ st.accounts[r.id].status = "ACTIVE"
                   /\ st.accounts[r.id].appId = i[4]

\* C8 witness: an account is registered, no session exists, and a further
\* registration would succeed while a repeated one would fail.
C8_Witness ==
    /\ Len(accounts) = 1
    /\ accounts[1].status = "ACTIVE"
    /\ sessions = <<>>
    /\ \E i, j \in RegInputs :
           /\ RegisterNewAccountResult(i[1], i[2], i[3], i[4], FALSE).err = ErrNil
           /\ RegisterNewAccountResult(j[1], j[2], j[3], j[4], FALSE).err = ErrStore

\* C9 (as claimed): when ChangePassword(accountID, old, new) returns success, the
\* stored hash rejects old and accepts new.
C9_OldRejectedNewAccepted ==
    [][ \A c \in CPCallers :
            ChangePasswordWrite(c, FALSE) =>
                \A old \in {cp[c].old}, new \in {cp[c].new}, id \in {cp[c].acct} :
                    /\ ~CompareHashAndPassword(accounts'[id].passHash, old)
                    /\ CompareHashAndPassword(accounts'[id].passHash, new)
      ]_vars

\* C9 (amended): when ChangePassword(accountID, old, new) returns success, the
\* stored hash accepts new and, when old differs from new, rejects old; the next
\* Login or ChangePassword sees it: the credential check passes with new and,
\* when old differs from new, fails with InvalidCredentials with old.
C9_NewHashTakesEffect ==
    [][ \A c \in CPCallers :
            ChangePasswordWrite(c, FALSE) =>
                \A old \in {cp[c].old}, new \in {cp[c].new}, id \in {cp[c].acct},
                   email \in {accounts[cp[c].acct].email} :
                    /\ CompareHashAndPassword(accounts'[id].passHash, new)
                    /\ LoginCredentialError(email, new, FALSE)' = ErrNil
                    /\ ChangePasswordCheckError(id, new, old)' = ErrNil
                    /\ old # new =>
                           /\ ~CompareHashAndPassword(accounts'[id].passHash, old)
                           /\ LoginCredentialError(email, old, FALSE)' = ErrInvalidCredentials
                           /\ ChangePasswordCheckError(id, old, new)' = ErrInvalidCredentials
      ]_vars

\* C9 witness: the first account was registered with pw123 and now carries the
\* hash of pw456, which only a successful ChangePassword writes.
C9_Witness ==
    /\ Len(accounts) >= 1
    /\ accounts[1].email = "a@x.com"
    /\ CompareHashAndPassword(accounts[1].passHash, "pw456")
    /\ LoginCredentialError("a@x.com", "pw123", FALSE) = ErrInvalidCredentials

\* What a Login in flight holds: the account it verified, an existing app, and
\* once minted a token pair of that account whose expiry is a clock reading of
\* the call plus tokenTTL, and once stamped a refresh deadline that is a later
\* or equal clock reading of the call plus refreshTokenTTL.
C10_LoginFrame ==
    /\ login.pc # "idle" => AccountExists(login.uid)
    /\ login.pc \notin {"idle", "account"} => login.appId \in Apps
    /\ login.pc \in {"minted", "stamped"} =>
           /\ login.token # NoToken /\ login.refreshToken # NoRefresh
           /\ login.token.uid = login.uid /\ login.token.appId = login.appId
           /\ login.token.exp - tokenTTL \in 0 .. now
    /\ login.pc = "stamped" =>
           /\ login.expiresAt - refreshTokenTTL \in 0 .. now
           /\ login.token.exp - tokenTTL <= login.expiresAt - refreshTokenTTL

\* C10 (as claimed): the session a successful Login leaves has expiresAt and
\* refreshExpiresAt at tokenTTL and refreshTokenTTL from one and the same login
\* time.
C10_SingleLoginTime ==
    [][ (login.pc = "stamped" /\ LoginSave(FALSE)) =>
            /\ Len(sessions') = Len(sessions) + 1
            /\ sessions'[Len(sessions')].uid = login.uid
            /\ sessions'[Len(sessions')].expiresAt - tokenTTL =
                   sessions'[Len(sessions')].refreshExpiresAt - refreshTokenTTL
      ]_vars

\* C10 (amended): after a successful RegisterNewAccount(email, pw, role, appId),
\* Login with the same email and password passes the credential check and, for
\* an existing app, goes on; signer, random source and store succeeding, the
\* call mints a token that expires tokenTTL after the time it reads then, sets
\* the refresh deadline refreshTokenTTL after the time it reads next, which is
\* the same or a later one, and returns the pair with the step that appends
\* exactly one session: owned by the account, carrying the pair, with expiresAt
\* the expiry of the token and refreshExpiresAt that deadline.
C10_RegisterThenLogin ==
    /\ []C10_LoginFrame
    /\ [][ /\ \A i \in RegInputs :
                  (/\ Len(accounts') = Len(accounts) + 1
                   /\ RegisterNewAccountResult(i[1], i[2], i[3], i[4], FALSE).err = ErrNil
                   /\ RegisterNewAccount(i[1], i[2], i[3], i[4], FALSE)) =>
                      /\ LoginCredentialError(i[1], i[2], FALSE)' = ErrNil
                      /\ AccountByEmail(i[1])' = Len(accounts) + 1
                      /\ i[4] \in Apps => LoginAppError(i[4], FALSE) = ErrNil
           /\ \A i \in LoginInputs :
                  (/\ login.pc = "idle" /\ login' # login
                   /\ LoginAccount(i[1], i[2], i[3], FALSE)) =>
                      /\ login'.pc = "account"
                      /\ login'.uid = AccountByEmail(i[1])
                      /\ login'.appId = i[3]
                      /\ CompareHashAndPassword(accounts[login'.uid].passHash, i[2])
           /\ (login.pc = "account" /\ login.appId \in Apps /\ LoginApp(FALSE)) =>
                  login' = [login EXCEPT !.pc = "verified"]
           /\ (login.pc = "verified" /\ LoginMint("none")) =>
                  /\ login'.pc = "minted"
                  /\ login'.token.exp = now + tokenTTL
           /\ (login.pc = "minted" /\ login' # login) =>
                  /\ login'.pc = "stamped"
                  /\ login'.expiresAt = now + refreshTokenTTL
                  /\ login'.token = login.token
           /\ (login.pc = "stamped" /\ LoginSave(FALSE)) =>
                  /\ LoginSaveResult(FALSE) =
                         [token |-> login.token, refreshToken |-> login.refreshToken,
                          err |-> ErrNil]
                  /\ accounts' = accounts
                  /\ sessions' =
                         Append(sessions,
                                [uid |-> login.uid, token |-> login.token,
                                 refreshToken |-> login.refreshToken,
                                 expiresAt |-> login.token.exp,
                                 refreshExpiresAt |-> login.expiresAt])
         ]_vars

\* C10 witness: under a configuration whose two TTLs differ, a Login of
\* a@x.com has minted its token and set the refresh deadline at a later time,
\* and is about to save the session.
C10_Witness ==
    /\ login.pc = "stamped"
    /\ tokenTTL # refreshTokenTTL
    /\ login.uid = AccountByEmail("a@x.com")
    /\ login.token.exp - tokenTTL < login.expiresAt - refreshTokenTTL
    /\ sessions = <<>>

\* C11 (as claimed): a session that was revoked stays revoked.  A
\* RevokeAccountSession(token) that returns success, and a succeeding revoke
\* step of Logout, leave no session with that token; and no later step of any
\* operation (Login, RefreshAccountSession, ChangePassword, ChangeStatus
\* included) stores a session under a token that was handed out before and has
\* no session, so that a ValidateAccountSession(token) called from then on
\* never returns true.
C11_NeverResurrected ==
    [][ /\ \A t \in TokenInputs, f \in BOOLEAN :
               (/\ RevokeAccountSessionResult(t, f).err = ErrNil
                /\ RevokeAccountSession(t, f)) =>
                   /\ ~HasSession(t)'
                   /\ ~ValidateAccountSessionResult(t)'.valid
        /\ (logout.pc = "revoking" /\ logout' # logout /\ LogoutRevoke(FALSE)) =>
               \A t \in {logout.list[logout.k].token} :
                   /\ ~HasSession(t)'
                   /\ ~ValidateAccountSessionResult(t)'.valid
        /\ \A t \in TokenInputs :
               ~HasSession(t) =>
                   /\ ~HasSession(t)'
                   /\ ValidateFindError(t, FALSE)' = ErrSessionNotFound
                   /\ ~ValidateAccountSessionResult(t)'.valid
      ]_vars

\* C12: the write step of a ChangePassword call that passed verification does
\* not look at the stored hash again.  Whatever the stored hash is by then (a
\* concurrent call may have replaced the one that was verified), when the store
\* accepts the write the call returns success and the stored hash becomes the
\* hash of this call's new password, no other account changes, and a concurrent
\* call that has verified stays in flight with what it verified: the hash
\* written last stands.
C12_LastWriteWins ==
    [][ \A c \in CPCallers :
            (cp[c].pc = "verified" /\ ChangePasswordWrite(c, FALSE)) =>
                \A id \in {cp[c].acct}, new \in {cp[c].new} :
                    /\ ChangePasswordWriteResult(FALSE) = [ok |-> TRUE, err |-> ErrNil]
                    /\ Len(accounts') = Len(accounts)
                    /\ accounts'[id].passHash = GenerateFromPassword(new)
                    /\ CompareHashAndPassword(accounts'[id].passHash, new)
                    /\ \A j \in 1 .. Len(accounts) : j # id => accounts'[j] = accounts[j]
                    /\ \A d \in CPCallers \ {c} : cp'[d] = cp[d]
      ]_vars

\* C12 witness: a call that verified its old password is about to write while
\* the stored hash, replaced by a concurrent call that verified the same old
\* password, no longer accepts that password nor is the hash the call will write.
C12_Witness ==
    \E c \in CPCallers :
        /\ cp[c].pc = "verified"
        /\ cp[c].old = "pw123"
        /\ ~CompareHashAndPassword(accounts[cp[c].acct].passHash, cp[c].old)
        /\ accounts[cp[c].acct].passHash # NewPassHash(c)
        /\ \A d \in CPCallers \ {c} : cp[d].pc = "idle"

\* C13 (as claimed): the session a successful RefreshAccountSession(accountID,
\* refreshToken) saves is owned by the account that owns the session the
\* presented refresh token was found with.
C13_RefreshOwnerBound ==
    [][ (refresh.pc = "stamped" /\ RefreshSave(FALSE)) =>
            /\ Len(sessions') = Len(sessions) + 1
            /\ sessions'[Len(sessions')].uid = refresh.owner
      ]_vars

\* C14 (as claimed): a session that is not on the list of the Logout call (one
\* created by a Login or a RefreshAccountSession after the listing step) is not
\* revoked by the call: every step of its revoke loop leaves it stored.
C14_UnlistedSurvive ==
    [][ (logout.pc = "revoking" /\ LogoutRevoke(FALSE)) =>
            \A i \in 1 .. Len(sessions) :
                sessions[i] \notin ListedUpTo(Len(logout.list)) =>
                    \E j \in 1 .. Len(sessions') : sessions'[j] = sessions[i]
      ]_vars

\* C14 (amended): Logout lists the sessions the account holds when it is
\* invoked and revokes those, each by its access token: whenever it has
\* returned success no listed session is stored.  Every step of its revoke
\* loop, the one it returns success with included, removes of the account's
\* sessions those stored under the access token of the listed session it is
\* at, and leaves every session that does not carry the access token of a
\* listed session stored, the sessions the account acquired from a Login or a
\* RefreshAccountSession after the listing included; so the account can hold a
\* valid session right after the return.
C14_LogoutCoversListedOnly ==
    [][ /\ \A id \in AccountIds :
               (logout' # logout /\ LogoutBegin(id, FALSE)) =>
                   /\ logout'.list = Sessions(id)
                   /\ logout'.pc = "done" <=> Sessions(id) = <<>>
        /\ logout'.pc = "done" =>
               \A k \in 1 .. Len(logout'.list), i \in 1 .. Len(sessions') :
                   sessions'[i] # logout'.list[k]
        /\ (logout.pc = "revoking" /\ logout' # logout /\ LogoutRevoke(FALSE)) =>
               /\ \A i \in 1 .. Len(sessions) :
                      sessions[i].token \notin ListedTokensUpTo(Len(logout.list)) =>
                          \E j \in 1 .. Len(sessions') : sessions'[j] = sessions[i]
               /\ \A a \in {logout.acct}, t \in {logout.list[logout.k].token} :
                      Sessions(a)' =
                          SelectRows(sessions, 1,
                                     {i \in 1 .. Len(sessions) :
                                          sessions[i].uid = a /\ sessions[i].token # t})
      ]_vars

\* C14 witness: Logout is at the last session of its list, and the account
\* holds a session that is not on the list, carries another access token than
\* the listed ones and validates; the step Logout returns success with leaves
\* it stored.
C14_Witness ==
    /\ logout.pc = "revoking"
    /\ logout.k = Len(logout.list)
    /\ \E i \in 1 .. Len(sessions) :
           /\ sessions[i].uid = logout.acct
           /\ sessions[i].token \notin ListedTokensUpTo(Len(logout.list))
           /\ ValidateAccountSessionResult(sessions[i].token).valid

\* C15: Login writes a store only with the step it returns success with.  It
\* stops at the account lookup, the password check or the app lookup exactly
\* when that one fails, and at the signing or the refresh-token generation
\* exactly when that one fails; a Login that stops there, or whose session save
\* fails, hands out no token and leaves the Account and Session Stores as they
\* are (the App Store is never written).  A Login whose save succeeds leaves
\* the accounts as they are, returns the pair it minted and appends exactly one
\* session, which carries that pair and is owned by the account that had the
\* given email and whose hash accepted the given password.
C15_LoginWritesOnSuccess ==
    [][ /\ \A i \in LoginInputs, f \in BOOLEAN :
               (login.pc = "idle" /\ LoginAccount(i[1], i[2], i[3], f)) =>
                   LET a == AccountByEmail(i[1])
                       verified == a # 0 /\ CompareHashAndPassword(accounts[a].passHash, i[2])
                       err == LoginCredentialError(i[1], i[2], f)
                   IN  /\ err # ErrNil <=> (f \/ ~verified)
                       /\ accounts' = accounts /\ sessions' = sessions
                       /\ handedOut' = handedOut
                       /\ err # ErrNil => login' = IdleLogin
                       /\ err = ErrNil =>
                              /\ login'.pc = "account"
                              /\ login'.uid = a /\ accounts[a].email = i[1]
                              /\ CompareHashAndPassword(accounts[a].passHash, i[2])
                              /\ login'.appId = i[3]
        /\ \A f \in BOOLEAN :
               (login.pc = "account" /\ LoginApp(f)) =>
                   \A err \in {LoginAppError(login.appId, f)} :
                       /\ err # ErrNil <=> (f \/ login.appId \notin Apps)
                       /\ accounts' = accounts /\ sessions' = sessions
                       /\ handedOut' = handedOut
                       /\ err # ErrNil => login' = IdleLogin
                       /\ err = ErrNil => login' = [login EXCEPT !.pc = "verified"]
        /\ \A f \in MintFaults :
               (login.pc = "verified" /\ LoginMint(f)) =>
                   /\ MintError(f) # ErrNil <=> f # "none"
                   /\ accounts' = accounts /\ sessions' = sessions
                   /\ handedOut' = handedOut
                   /\ f # "none" => login' = IdleLogin
                   /\ f = "none" =>
                          /\ login'.pc = "minted" /\ login'.uid = login.uid
                          /\ login'.token # NoToken /\ login'.refreshToken # NoRefresh
                          /\ login'.token.uid = login.uid
        /\ (login.pc = "minted" /\ login' # login) =>
               /\ accounts' = accounts /\ sessions' = sessions
               /\ handedOut' = handedOut
               /\ login'.pc = "stamped" /\ login'.uid = login.uid
               /\ login'.token = login.token /\ login'.refreshToken = login.refreshToken
        /\ \A f \in BOOLEAN :
               (login.pc = "stamped" /\ LoginSave(f)) =>
                   \A r \in {LoginSaveResult(f)} :
                       /\ accounts' = accounts
                       /\ login' = IdleLogin
                       /\ r.err # ErrNil <=> f
                       /\ f => /\ r = [token |-> NoToken, refreshToken |-> NoRefresh,
                                       err |-> ErrStore]
                               /\ sessions' = sessions
                               /\ handedOut' = handedOut
                       /\ ~f => /\ r.token = login.token /\ r.refreshToken = login.refreshToken
                                /\ handedOut' = handedOut \cup {<<r.token, r.refreshToken>>}
                                /\ Len(sessions') = Len(sessions) + 1
                                /\ SubSeq(sessions', 1, Len(sessions)) = sessions
                                /\ sessions'[Len(sessions')].uid = login.uid
                                /\ sessions'[Len(sessions')].token = r.token
                                /\ sessions'[Len(sessions')].refreshToken = r.refreshToken
      ]_vars

\* C15 witness: one Login has succeeded and left the only session; another has
\* verified, minted and set its deadline, and is about to save.
C15_Witness ==
    /\ Len(sessions) = 1
    /\ Cardinality(handedOut) = 1
    /\ login.pc = "stamped"
    /\ login.token # sessions[1].token

\* Whatever the status of the account: Login with its email, its password and an
\* existing app passes every check; RefreshAccountSession naming it passes the
\* account and app checks, and a call in flight passes the lookup of a stored
\* refresh token and the check of a deadline that is not past;
\* ValidateAccountSession on the token of a stored session that is not past its
\* expiry returns true.
C16_StatusBlind ==
    /\ \A i \in LoginInputs :
           (/\ AccountByEmail(i[1]) # 0
            /\ CompareHashAndPassword(accounts[AccountByEmail(i[1])].passHash, i[2])
            /\ i[3] \in Apps) =>
               /\ LoginCredentialError(i[1], i[2], FALSE) = ErrNil
               /\ LoginAppError(i[3], FALSE) = ErrNil
    /\ \A id \in AccountIds :
           AccountExists(id) =>
               /\ RefreshAccountError(id, FALSE) = ErrNil
               /\ accounts[id].appId \in Apps =>
                      RefreshAppError(accounts[id].appId, FALSE) = ErrNil
    /\ (login.pc = "account" /\ login.appId \in Apps) =>
           LoginAppError(login.appId, FALSE) = ErrNil
    /\ (refresh.pc = "account" /\ refresh.appId \in Apps) =>
           RefreshAppError(refresh.appId, FALSE) = ErrNil
    /\ (refresh.pc = "fetched" /\ HasRefresh(refresh.presented)) =>
           RefreshFindError(FALSE) = ErrNil
    /\ (refresh.pc = "found" /\ now <= refresh.deadline) => RefreshCheckError = ErrNil
    /\ MintError("none") = ErrNil
    /\ login.pc = "stamped" => LoginSaveResult(FALSE).err = ErrNil
    /\ refresh.pc = "stamped" => RefreshSaveResult(FALSE).err = ErrNil
    /\ \A j \in 1 .. Len(sessions) :
           /\ ValidateFindError(sessions[j].token, FALSE) = ErrNil
           /\ now <= sessions[j].expiresAt =>
                  ValidateAccountSessionResult(sessions[j].token).valid
    /\ (validate.pc = "found" /\ now <= validate.session.expiresAt) =>
           ValidateCheckResult(validate.session).valid

\* C16: the status of an account gates nothing.  In every state C16_StatusBlind
\* holds; and a ChangeStatus(accountID, s) that succeeds changes nothing but the
\* status field of that account: the sessions are as they were, the Login, the
\* RefreshAccountSession and the ValidateAccountSession in flight hold what
\* they held, and every check of
\* Login, RefreshAccountSession and ValidateAccountSession yields after it what
\* it would have yielded before it.
C16_StatusNeverGates ==
    /\ []C16_StatusBlind
    /\ [][ \A s \in StatusInputs :
               (/\ accounts' # accounts
                /\ ChangeStatusResult(s[1], s[2], FALSE).err = ErrNil
                /\ ChangeStatus(s[1], s[2], FALSE)) =>
                   /\ sessions' = sessions
                   /\ accounts' = [accounts EXCEPT ![s[1]].status = s[2]]
                   /\ login' = login /\ refresh' = refresh /\ validate' = validate
                   /\ \A i \in LoginInputs, f \in BOOLEAN :
                          \A was \in {LoginCredentialError(i[1], i[2], f)} :
                              LoginCredentialError(i[1], i[2], f)' = was
                   /\ \A id \in AccountIds, f \in BOOLEAN :
                          \A was \in {RefreshAccountError(id, f)} :
                              RefreshAccountError(id, f)' = was
                   /\ \A f \in BOOLEAN :
                          \A was \in {RefreshFindError(f)} : RefreshFindError(f)' = was
                   /\ \A was \in {RefreshCheckError} : RefreshCheckError' = was
                   /\ \A t \in TokenInputs :
                          \A was \in {ValidateAccountSessionResult(t)} :
                              ValidateAccountSessionResult(t)' = was
                   /\ \A was \in {ValidateCheckResult(validate.session)} :
                          ValidateCheckResult(validate.session)' = was
          ]_vars

\* C16 witness: the first account is SUSPENDED, holds a session that still
\* validates and that a ValidateAccountSession in flight has read, passes the
\* checks of Login, and a RefreshAccountSession naming it has passed the
\* account, app, session and deadline checks.
C16_Witness ==
    /\ Len(accounts) >= 1
    /\ accounts[1].status = "SUSPENDED"
    /\ \E j \in 1 .. Len(sessions) :
           /\ sessions[j].uid = 1
           /\ ValidateAccountSessionResult(sessions[j].token).valid
           /\ validate = [pc |-> "found", session |-> sessions[j]]
    /\ RefreshAccountError(1, FALSE) = ErrNil
    /\ LoginCredentialError(accounts[1].email, "pw123", FALSE) = ErrNil
    /\ refresh.pc = "checked" /\ refresh.uid = 1

\* C17: GetActiveAccountSessions(accountID) returns, without an error, every
\* stored session of the account and nothing else, each once, in store order,
\* those past their expiry included; for a returned session with expiresAt < now
\* ValidateAccountSession on its token returns (false, expiresAt).  When the
\* store's listing fails it returns the error and no session.
C17_ListIsUnfiltered ==
    \A id \in AccountIds :
        LET r == GetActiveAccountSessionsResult(id, FALSE)
            owned == {j \in 1 .. Len(sessions) : sessions[j].uid = id}
        IN  /\ r.err = ErrNil
            /\ Len(r.sessions) = Cardinality(owned)
            /\ \A j \in owned : \E k \in 1 .. Len(r.sessions) : r.sessions[k] = sessions[j]
            /\ \A k \in 1 .. Len(r.sessions) :
                   /\ r.sessions[k].uid = id
                   /\ \E j \in owned : sessions[j] = r.sessions[k]
                   /\ r.sessions[k].expiresAt < now =>
                          ValidateAccountSessionResult(r.sessions[k].token) =
                              [valid |-> FALSE, expiresAt |-> r.sessions[k].expiresAt,
                               err |-> ErrNil]
            /\ \A k1, k2 \in 1 .. Len(r.sessions) :
                   k1 < k2 =>
                       \E j1, j2 \in owned :
                           /\ j1 < j2
                           /\ sessions[j1] = r.sessions[k1]
                           /\ sessions[j2] = r.sessions[k2]
            /\ GetActiveAccountSessionsResult(id, TRUE) =
                   [sessions |-> <<>>, err |-> ErrStore]

\* C17 witness: the list returned for an account holds a session past its expiry
\* and one that is not.
C17_Witness ==
    \E id \in AccountIds :
        LET r == GetActiveAccountSessionsResult(id, FALSE)
        IN  \E k1, k2 \in 1 .. Len(r.sessions) :
                /\ r.sessions[k1].expiresAt < now
                /\ ~ValidateAccountSessionResult(r.sessions[k1].token).valid
                /\ ValidateAccountSessionResult(r.sessions[k2].token).valid

C18_RefreshFrame ==
    /\ refresh.pc \in {"minted", "stamped"} =>
           /\ refresh.token # NoToken
           /\ refresh.token.exp - tokenTTL \in 0 .. now
    /\ refresh.pc = "stamped" =>
           /\ refresh.expiresAt - refreshTokenTTL \in 0 .. now
           /\ refresh.token.exp - tokenTTL <= refresh.expiresAt - refreshTokenTTL

C19_ChecksInOrder ==
    /\ \A id \in AccountIds, f \in BOOLEAN :
           /\ ~AccountExists(id) => RefreshAccountError(id, FALSE) = ErrAccountNotFound
           /\ AccountExists(id) => RefreshAccountError(id, FALSE) = ErrNil
           /\ RefreshAccountError(id, f) \notin {ErrSessionNotFound, ErrWrappedNil}
    /\ \A app \in AppIds, f \in BOOLEAN :
           /\ app \notin Apps => RefreshAppError(app, FALSE) = ErrAppNotFound
           /\ app \in Apps => RefreshAppError(app, FALSE) = ErrNil
           /\ RefreshAppError(app, f) \notin {ErrSessionNotFound, ErrWrappedNil}
    /\ refresh.pc # "idle" =>
           AccountExists(refresh.uid) /\ refresh.appId = accounts[refresh.uid].appId
    /\ refresh.pc \notin {"idle", "account"} => refresh.appId \in Apps
    /\ refresh.pc = "fetched" =>
           /\ RefreshFindError(FALSE) \in {ErrNil, ErrSessionNotFound}
           /\ RefreshFindError(FALSE) = ErrSessionNotFound <=> ~HasRefresh(refresh.presented)
    /\ refresh.pc = "found" =>
           /\ RefreshCheckError \in {ErrNil, ErrWrappedNil}
           /\ RefreshCheckError = ErrWrappedNil <=> refresh.deadline < now
    /\ refresh.pc \in {"idle", "account", "fetched", "found", "checked"} =>
           refresh.token = NoToken /\ refresh.refreshToken = NoRefresh

\* C19: RefreshAccountSession checks account, app, session and refresh deadline
\* in that order and stops at the first check that fails: C19_ChecksInOrder
\* holds in every state, the call moves from one check to the next or returns,
\* and no step of it but the save that ends a call whose four checks passed
\* changes a store or hands out a token.
C19_RefreshCheckOrder ==
    /\ []C19_ChecksInOrder
    /\ [][ /\ refresh' # refresh =>
                  \/ refresh' = IdleRefresh
                  \/ <<refresh.pc, refresh'.pc>> \in
                         { <<"idle", "account">>, <<"account", "fetched">>,
                           <<"fetched", "found">>,
                           <<"found", "checked">>, <<"checked", "minted">>,
                           <<"minted", "stamped">> }
           /\ (refresh' # refresh /\ refresh.pc # "stamped") =>
                  sessions' = sessions /\ accounts' = accounts /\ handedOut' = handedOut
           /\ (refresh.pc = "account" /\ refresh'.pc = "idle") =>
                  \E f \in BOOLEAN : RefreshAppError(refresh.appId, f) # ErrNil
           /\ (refresh.pc = "account" /\ refresh'.pc = "fetched") =>
                  refresh.appId \in Apps
           /\ (refresh.pc = "fetched" /\ refresh'.pc = "idle") =>
                  \E f \in BOOLEAN : RefreshFindError(f) # ErrNil
           /\ (refresh.pc = "found" /\ refresh'.pc = "idle") =>
                  RefreshCheckError = ErrWrappedNil
           /\ (refresh.pc = "found" /\ refresh'.pc = "checked") => ~(refresh.deadline < now)
         ]_vars

\* C19 witness: a call that presents a stored refresh token which is not past
\* its deadline has fetched an account whose app is missing, and is about to
\* fail with AppNotFound; a call naming an unknown account would fail with
\* AccountNotFound.
C19_Witness ==
    /\ refresh.pc = "account"
    /\ HasRefresh(refresh.presented)
    /\ ~RefreshExpired(SessionByRefreshToken(refresh.presented).refreshExpiresAt)
    /\ RefreshAppError(refresh.appId, FALSE) = ErrAppNotFound
    /\ \E unknown \in AccountIds :
           /\ ~AccountExists(unknown)
           /\ RefreshAccountError(unknown, FALSE) = ErrAccountNotFound

====
